---- MODULE Spec2Model ----
(***************************************************************************)
(* PyFluxPro pre-processing: the correction pipeline (do_corrections of    *)
(* scripts/opf_processing.py), the compliance gates of                     *)
(* scripts/opf_compliance.py and the correction adapters and kernels of    *)
(* scripts/opf_func_corrections.py.                                        *)
(*                                                                         *)
(* Conventions.  A Python string that the code builds by concatenation or  *)
(* os.path.join is a sequence of its parts: the variable label "u" is      *)
(* <<"u">>, its archive label  "u" + "b4" + "level_2"  is                  *)
(* <<"u", "b4", "level_2">>, the path level_2/f.nc is <<"level_2","f.nc">>.*)
(* A dict is a function (or a record) and a missing key is told by its     *)
(* `keys` set or by the value Absent.                                      *)
(***************************************************************************)
EXTENDS Integers, Sequences, FiniteSets, TLC

\* ------------------------------------------------------------------ bounds
\* the longest Corrections section an initial configuration holds
MaxSteps == 2
\* the number of rows of the dataset (the shared time axis)
NRows == 2

\* ----------------------------------------------------------------- helpers
Absent == "<absent>"
Unbound == "<unbound>"

Max(S) == CHOOSE m \in S : \A n \in S : n <= m

Range(s) == {s[n] : n \in 1..Len(s)}

\* os.path.dirname of a path given by its parts
Dirname(p) == IF Len(p) = 0 THEN p ELSE SubSeq(p, 1, Len(p) - 1)

\* os.path.join(a, b) for a relative b
PathJoin(a, b) == a \o b

\* The three message lists a gate fills.
NoMessages == [ERROR |-> <<>>, WARNING |-> <<>>, INFO |-> <<>>]

\* ----------------------------------------------- the processing-level registry
\* get_all_recognized_corrections: the entries in the order of the dict literal;
\* the entry "X" has neither "aka" nor "correction".
get_all_recognized_corrections ==
    << [index |-> "1", short_name |-> "level_1", aka |-> "Unprocessed", correction |-> ""],
       [index |-> "2", short_name |-> "level_2", aka |-> "Despike", correction |-> "Despike_"],
       [index |-> "3", short_name |-> "level_3", aka |-> "Cross-wind", correction |-> ""],
       [index |-> "4", short_name |-> "level_4", aka |-> "Angle-of-Attack", correction |-> ""],
       [index |-> "5", short_name |-> "level_5", aka |-> "Tilt", correction |-> "Tilt_"],
       [index |-> "6", short_name |-> "level_6", aka |-> "Time Lag", correction |-> "TimeLag_"],
       [index |-> "7", short_name |-> "level_7", aka |-> "Detrend", correction |-> "Detrend_"],
       [index |-> "X", short_name |-> "non-standard", aka |-> Absent, correction |-> Absent] >>

\* the empty dict {} as a registry entry: no key present
EmptyEntry == [index |-> Absent, short_name |-> Absent, aka |-> Absent, correction |-> Absent]

\* dict.get(key, default) on a registry entry
EntryGet(entry, key, default) == IF entry[key] = Absent THEN default ELSE entry[key]

\* get_corrections_from_key_value(key, value): the comprehension keys every
\* entry by v.get(key, "") (a later entry replaces an earlier one under the
\* same key), and .get(value, {}) yields the entry found or the empty dict.
get_corrections_from_key_value(key, value) ==
    LET reg == get_all_recognized_corrections
        hits == {n \in 1..Len(reg) : EntryGet(reg[n], key, "") = value}
    IN  IF hits = {} THEN EmptyEntry ELSE reg[Max(hits)]

\* Line 67 of do_corrections: the entry's .get("short_name", ""), a str.
LevelLookup(standard_name) ==
    [type |-> "str",
     val  |-> EntryGet(get_corrections_from_key_value("short_name", standard_name),
                       "short_name", "")]

\* Line 68 of do_corrections: level_folder.get(standard_name, "level_unrecognized").
\* Only a dict has .get; on the str of line 67 the attribute lookup raises.
LevelFolderGet(value, standard_name) ==
    IF value.type = "dict"
    THEN [exc |-> "none", val |-> "level_unrecognized"]
    ELSE [exc |-> "AttributeError", val |-> ""]

\* ------------------------------------------------------ the file system
\* os.path.isdir: the directories that exist are the set `d`; the empty path
\* "" is not a directory.
IsDir(d, p) == p # <<>> /\ p \in d

\* os.mkdir(p): raises FileNotFoundError when p is "" or its parent does not
\* exist (a one-part path lies in the working directory, which exists).
Mkdir(d, p) ==
    IF p = <<>> \/ (Dirname(p) # <<>> /\ Dirname(p) \notin d)
    THEN [exc |-> "FileNotFoundError", dirs |-> d]
    ELSE [exc |-> "none", dirs |-> d \cup {p}]

\* The classes `except Exception` catches: every exception the checks raise
\* is one of them; KeyboardInterrupt and SystemExit derive from BaseException.
ExceptionClasses ==
    {"Exception", "KeyError", "AttributeError", "NameError", "UnboundLocalError",
     "ValueError", "TypeError", "FileNotFoundError", "LinAlgError"}

\* ------------------------------------------------- the gate of a correction
\* A gate's running state: the message lists, the exception raised inside the
\* try block ("none" while none was), and the directories that exist.
GateState(dirs0) == [messages |-> NoMessages, exc |-> "none", dirs |-> dirs0]

AddMessage(g, severity, msg) ==
    [g EXCEPT !.messages[severity] = Append(@, msg)]

\* px_check_files(cfg, std, messages)
px_check_files(cfg, g) ==
    IF "Files" \in cfg.sections
    THEN IF "out_filename" \in cfg.Files.keys /\ "out_filepath" \in cfg.Files.keys
         THEN LET out_filepath ==
                      Dirname(PathJoin(cfg.Files.out_filepath, cfg.Files.out_filename))
              IN  IF IsDir(g.dirs, out_filepath)
                  THEN g
                  ELSE LET g1 == AddMessage(g, "INFO", <<"Files: out_filepath doesn't exist, creating ...">>)
                           made == Mkdir(g.dirs, out_filepath)
                       IN  [g1 EXCEPT !.exc = made.exc, !.dirs = made.dirs]
         ELSE AddMessage(g, "ERROR", <<"Files: 'out_filename' not in section">>)
    ELSE g

\* The body of the try block of check_px_controlfile, up to the exception or
\* the end of the checks: cfg["Variables"] raises KeyError when the section is
\* missing, then the files check runs.
px_checks(cfg, dirs0) ==
    IF "Variables" \notin cfg.sections
    THEN [GateState(dirs0) EXCEPT !.exc = "KeyError"]
    ELSE px_check_files(cfg, GateState(dirs0))

\* The verdict of a gate whose except clause leaves ok as the checks left it.
GateResultKeepingOk(g) ==
    [ok |-> Len(g.messages.ERROR) = 0,
     messages |-> g.messages,
     caught |-> IF g.exc \in ExceptionClasses THEN g.exc ELSE "none",
     propagated |-> IF g.exc \in ExceptionClasses THEN "none" ELSE g.exc,
     dirs |-> g.dirs]

\* What a gate returns from the state its checks ended in: ok is False when
\* the ERROR list is not empty, and the except clause turns an exception of
\* class Exception into ok = False; any other would leave the function.
GateResult(g) ==
    [ok |-> IF g.exc # "none" THEN FALSE ELSE Len(g.messages.ERROR) = 0,
     messages |-> g.messages,
     caught |-> IF g.exc \in ExceptionClasses THEN g.exc ELSE "none",
     propagated |-> IF g.exc \in ExceptionClasses THEN "none" ELSE g.exc,
     dirs |-> g.dirs]

\* check_px_controlfile(cfg)
check_px_controlfile(cfg, dirs0) == GateResult(px_checks(cfg, dirs0))

\* ------------------------------------------- the adapters, by table shape
\* A working table: what kind of object it is, its row count and its columns
\* (column label -> the column's data).  The data of a column is the list of
\* the kernels applied to the raw series so far.
U == <<"u">>
V == <<"v">>
W == <<"w">>

NoTable == [kind |-> "none", rows |-> 0, data |-> <<>>]

Columns(t) == DOMAIN t.data

\* DataFrame.shape
Shape(t) == <<t.rows, Cardinality(Columns(t))>>

\* The adapters a func_name may name, and the other attributes of the module
\* opf_func_corrections that getattr finds but that cannot be called.
RegisteredAdapters ==
    {"Despike_Mauder_2013", "Tilt_2_rotation", "Tilt_3_rotation", "Tilt_planar_fit"}

NonCallableAttrs == {"logging", "numpy", "scipy", "pandas", "logger"}

ModuleAttrs == RegisteredAdapters \cup NonCallableAttrs

\* The method each tilt adapter puts into kw before it calls __Tilt_correction__.
TiltMethod(name) ==
    CASE name = "Tilt_2_rotation" -> "2r"
      [] name = "Tilt_3_rotation" -> "2r"
      [] name = "Tilt_planar_fit" -> "pf"

\* __Tilt_correction__: the kernel the method selects.
TiltKernel(method) ==
    CASE method = "2r" -> "__wilczak2001_2r__"
      [] method = "3r" -> "__wilczak2001_3r__"
      [] method = "pf" -> "__planarfit__"
      [] OTHER -> Absent

\* The exception a tilt kernel ends with on a u, v, w triple: the triple
\* rotation unpacks the four results of the double rotation into three names;
\* `fails` stands for a failure that depends on the numbers (the singular
\* system of the planar fit) or on kwargs the kernel does not take.
TiltKernelExc(kernel, fails) ==
    IF kernel = "__wilczak2001_3r__" THEN "ValueError"
    ELSE IF fails THEN (IF kernel = "__planarfit__" THEN "LinAlgError" ELSE "TypeError")
    ELSE "none"

\* __Tilt_correction__(dataframe, u, v, w, method): the columns u, v, w are
\* read (KeyError when one is missing), the kernel is applied and a dict of the
\* three rotated columns is returned: no other column, and no DataFrame.
Tilt_correction(t, method, fails) ==
    LET kernel == TiltKernel(method) IN
    IF kernel = Absent THEN [exc |-> "TypeError", table |-> NoTable]
    ELSE IF ~({U, V, W} \subseteq Columns(t)) THEN [exc |-> "KeyError", table |-> NoTable]
    ELSE IF TiltKernelExc(kernel, fails) # "none"
         THEN [exc |-> TiltKernelExc(kernel, fails), table |-> NoTable]
    ELSE [exc |-> "none",
          table |-> [kind |-> "dict", rows |-> t.rows,
                     data |-> [c \in {U, V, W} |-> Append(t.data[c], kernel)]]]

\* __Despike__(dataframe, method="mauder2013"): every column of the input is
\* despiked and the columns are gathered into a new DataFrame; `fails` stands
\* for a column the kernel or the interpolation raises on (see DespikeColumn).
Despike(t, fails) ==
    IF fails THEN [exc |-> "ValueError", table |-> NoTable]
    ELSE [exc |-> "none",
          table |-> [kind |-> "DataFrame", rows |-> t.rows,
                     data |-> [c \in Columns(t) |-> Append(t.data[c], "__mauder2013__")]]]

\* func(dataframe, *args, **kwargs) for the attribute `name` of the module.
CallAttr(name, t, fails) ==
    IF name = "Despike_Mauder_2013" THEN Despike(t, fails)
    ELSE IF name \in RegisteredAdapters THEN Tilt_correction(t, TiltMethod(name), fails)
    ELSE [exc |-> "TypeError", table |-> NoTable]

\* ------------------------------------------------------------ the dataset
\* pfp_utils.CreateVariable(ds, var): the variable is stored under its label,
\* replacing a variable of that label.
CreateVariable(d, var) == (var.Label :> var) @@ d

\* pfp_utils.append_to_attribute(attr, {key: note})
append_to_attribute(attr, key, note) == Append(attr, [key |-> key, note |-> note])

RawVariable(label) == [Label |-> label, Data |-> <<>>, Attr |-> <<>>]

\* convert_ds_to_dataframe(ds, subset, how): the columns are the requested
\* variables the dataset holds (all its variables for an empty subset); with
\* none of them, an empty DataFrame.
RECURSIVE KeepPresent(_, _)
KeepPresent(subset, d) ==
    IF subset = <<>> THEN <<>>
    ELSE IF Head(subset) \in DOMAIN d
         THEN <<Head(subset)>> \o KeepPresent(Tail(subset), d)
         ELSE KeepPresent(Tail(subset), d)

convert_ds_to_dataframe(d, subset) ==
    LET variables_demanded ==
            IF subset # <<>> THEN Range(KeepPresent(subset, d)) ELSE DOMAIN d
    IN  IF variables_demanded = {}
        THEN [kind |-> "DataFrame", rows |-> 0, data |-> <<>>]
        ELSE [kind |-> "DataFrame", rows |-> NRows,
              data |-> [c \in variables_demanded |-> d[c].Data]]

\* DataFrame.empty
IsEmpty(t) == t.rows = 0 \/ Columns(t) = {}

\* ================================================================ state
VARIABLES
    \* do_corrections(main_ui, cf_level, ds)
    cf_level,      \* the configuration it is given
    stop_flag,     \* main_ui.stop_flag, set by the user interface at any time
    dirs,          \* the directories that exist
    ds,            \* the dataset: label -> variable
    pc,            \* the line do_corrections is at
    i,             \* the position in list(cf_level["Corrections"].keys())
    cf_corr,       \* the local cf_corr (bound = FALSE before its first assignment)
    level_folder,  \* the local level_folder
    func,          \* the local func (Unbound before its first assignment)
    dataframe,     \* the local dataframe
    dataframe2,    \* the local dataframe2
    j,             \* the position of the merge loop in variables_requested
    log,           \* what was logged
    writes,        \* the calls of pfp_io.NetCDFWrite
    exc,           \* the exception that left do_corrections
    \* history of the run
    ds0,           \* the dataset when the current step started
    started,       \* the steps that were started
    merged,        \* the steps whose merge loop ran to its end
    cancelled,     \* the loop was left by the break of line 60
    stop_set_in,   \* the step in progress when stop_flag was set (0: none)
    \* a run of a compliance gate, and an application of an adapter or kernel
    gate,
    kern

pvars == <<cf_level, stop_flag, dirs, ds, pc, i, cf_corr, level_folder, func,
           dataframe, dataframe2, j, log, writes, exc,
           ds0, started, merged, cancelled, stop_set_in>>

vars == <<pvars, gate, kern>>

\* ------------------------------------------------------- configurations
Z == <<"z">>

\* One entry of the Corrections section: Attr.long_name, Attr.standard_name,
\* Attr.func_name, Attr.Saving (Absent: the key is not there) and the labels
\* of the Variables section.
Step(long_name, standard_name, func_name, variables, saving) ==
    [long_name |-> long_name, standard_name |-> standard_name,
     func_name |-> func_name, Variables |-> variables, Saving |-> saving]

NoStep == Step(Absent, Absent, Absent, <<>>, Absent)

\* The steps the initial configurations are drawn from: despiking of one and
\* of two variables, of a variable the dataset lacks (alone, and after one it
\* holds), the tilt adapters, a func_name the module does not define, one that
\* names an attribute that is no function, and an Attr without standard_name.
StepMenu ==
    { Step("despike u", "level_2", "Despike_Mauder_2013", <<U>>, Absent),
      Step("despike u v", "level_2", "Despike_Mauder_2013", <<U, V>>, "True"),
      Step("despike u z", "Despike", "Despike_Mauder_2013", <<U, Z>>, Absent),
      Step("despike z", "level_2", "Despike_Mauder_2013", <<Z>>, Absent),
      Step("double rotation", "level_5", "Tilt_2_rotation", <<U, V, W>>, "True"),
      Step("planar fit", "level_5", "Tilt_planar_fit", <<U, V, W>>, Absent),
      Step("detrend u", "level_7", "Detrend_linear", <<U>>, Absent),
      Step("log v", "non-standard", "logger", <<V>>, Absent),
      Step("unnamed", Absent, "Despike_Mauder_2013", <<V>>, Absent) }

CorrectionLists == UNION {[1..n -> StepMenu] : n \in 0..MaxSteps}

\* The Files section of the configurations: out_filename is there, out_filepath
\* may be missing.
FilesMenu ==
    { [keys |-> {"out_filename", "out_filepath"},
       out_filename |-> <<"f.nc">>, out_filepath |-> <<"out">>],
      [keys |-> {"out_filename"},
       out_filename |-> <<"f.nc">>, out_filepath |-> <<>>] }

NoFiles == [keys |-> {}, out_filename |-> <<>>, out_filepath |-> <<>>]

Configurations ==
    [sections : {{"Files", "Global", "Variables", "Corrections"}},
     Files : FilesMenu,
     Corrections : CorrectionLists]

Datasets ==
    { [label \in {U, V, W} |-> RawVariable(label)],
      [label \in {U, V} |-> RawVariable(label)] }

NoCfCorr == [bound |-> FALSE, sections |-> {}, Files |-> NoFiles, Correction |-> NoStep]

NoException == [type |-> "none", at |-> "none"]

IdleGate == [pc |-> "idle"]

IdleKern == [pc |-> "idle"]

\* ------------------------------------------------------------- do_corrections
Terminal == {"returned1", "returned0", "raised"}

InStep == {"classify", "validate", "extract", "resolve", "apply", "shape", "merge", "save"}

Steps == cf_level.Corrections

Logged(level, msg) == Append(log, [level |-> level, step |-> i, msg |-> msg])

\* bool(x) of a configuration value
Truthy(x) == x \notin {Absent, ""}

\* pfp_io.get_outfilenamefromcf(cf): the output folder joined with out_filename
get_outfilenamefromcf(cf) == PathJoin(cf.Files.out_filepath, cf.Files.out_filename)

InitPipeline ==
    /\ cf_level \in Configurations
    /\ stop_flag \in BOOLEAN
    /\ dirs \in {{}, {<<"out">>}}
    /\ ds \in Datasets
    /\ pc = "loop"
    /\ i = 1
    /\ cf_corr = NoCfCorr
    /\ level_folder = Unbound
    /\ func = Unbound
    /\ dataframe = NoTable
    /\ dataframe2 = NoTable
    /\ j = 0
    /\ log = <<>>
    /\ writes = <<>>
    /\ exc = NoException
    /\ ds0 = ds
    /\ started = {}
    /\ merged = {}
    /\ cancelled = FALSE
    /\ stop_set_in = 0

Init ==
    /\ InitPipeline
    /\ gate = IdleGate
    /\ kern = IdleKern

\* Lines 56-63, stop_flag clear: the step's configuration is a deep copy of
\* cf_level with "Corrections" replaced by the step as "Correction".
StepStart ==
    /\ pc = "loop"
    /\ i <= Len(Steps)
    /\ ~stop_flag
    /\ cf_corr' = [bound |-> TRUE,
                   sections |-> (cf_level.sections \ {"Corrections"}) \cup {"Correction"},
                   Files |-> cf_level.Files,
                   Correction |-> Steps[i]]
    /\ pc' = "classify"
    /\ started' = started \cup {i}
    /\ ds0' = ds
    /\ UNCHANGED <<cf_level, stop_flag, dirs, ds, i, level_folder, func, dataframe,
                   dataframe2, j, log, writes, exc, merged, cancelled, stop_set_in,
                   gate, kern>>

\* Lines 58-60: the break.
StopObserved ==
    /\ pc = "loop"
    /\ i <= Len(Steps)
    /\ stop_flag
    /\ pc' = "final"
    /\ cancelled' = TRUE
    /\ UNCHANGED <<cf_level, stop_flag, dirs, ds, i, cf_corr, level_folder, func,
                   dataframe, dataframe2, j, log, writes, exc, ds0, started, merged,
                   stop_set_in, gate, kern>>

\* Line 56: the list of steps is exhausted.
LoopExhausted ==
    /\ pc = "loop"
    /\ i > Len(Steps)
    /\ pc' = "final"
    /\ UNCHANGED <<cf_level, stop_flag, dirs, ds, i, cf_corr, level_folder, func,
                   dataframe, dataframe2, j, log, writes, exc, ds0, started, merged,
                   cancelled, stop_set_in, gate, kern>>

\* An exception leaves do_corrections.
Raise(type, at) ==
    /\ exc' = [type |-> type, at |-> at]
    /\ pc' = "raised"

\* Lines 65-71, outside any try block: Attr["long_name"] and
\* Attr["standard_name"] raise KeyError when missing; the level folder is
\* looked up and joined in front of out_filename.
Classify ==
    /\ pc = "classify"
    /\ LET step == cf_corr.Correction
           found == LevelFolderGet(LevelLookup(step.standard_name), step.standard_name)
       IN  IF step.long_name = Absent \/ step.standard_name = Absent
           THEN Raise("KeyError", "step") /\ UNCHANGED <<level_folder, cf_corr>>
           ELSE IF found.exc # "none"
           THEN Raise(found.exc, "step") /\ UNCHANGED <<level_folder, cf_corr>>
           ELSE /\ level_folder' = found.val
                /\ cf_corr' = [cf_corr EXCEPT !.Files.out_filename =
                                                  PathJoin(<<found.val>>, @)]
                /\ pc' = "validate"
                /\ UNCHANGED exc
    /\ UNCHANGED <<cf_level, stop_flag, dirs, ds, i, func, dataframe, dataframe2, j,
                   log, writes, ds0, started, merged, cancelled, stop_set_in, gate, kern>>

\* Lines 128-130: after the loop, the dataset is written to the path of the
\* last cf_corr; cf_corr is not bound when no step was started.
FinalSave ==
    /\ pc = "final"
    /\ IF ~cf_corr.bound
       THEN Raise("UnboundLocalError", "final") /\ UNCHANGED writes
       ELSE /\ writes' = Append(writes, [kind |-> "final",
                                        path |-> get_outfilenamefromcf(cf_corr)])
            /\ pc' = "returned1"
            /\ UNCHANGED exc
    /\ UNCHANGED <<cf_level, stop_flag, dirs, ds, i, cf_corr, level_folder, func,
                   dataframe, dataframe2, j, log, ds0, started, merged, cancelled,
                   stop_set_in, gate, kern>>

\* The user interface sets main_ui.stop_flag while do_corrections runs.
SetStop ==
    /\ pc \notin Terminal
    /\ ~stop_flag
    /\ stop_flag' = TRUE
    /\ stop_set_in' = IF pc \in InStep THEN i ELSE 0
    /\ UNCHANGED <<cf_level, dirs, ds, pc, i, cf_corr, level_folder, func, dataframe,
                   dataframe2, j, log, writes, exc, ds0, started, merged, cancelled,
                   gate, kern>>

\* do_corrections as written.  Lines 72-126 are the actions Validate .. StepSave
\* below; Classify enables them only when the lookup of line 68 yields a folder,
\* which it does for no standard_name, so they add no behaviour to Next.
Next ==
    \/ StepStart
    \/ StopObserved
    \/ LoopExhausted
    \/ Classify
    \/ FinalSave
    \/ SetStop

Spec == Init /\ [][Next]_vars

\* --------------------------------------------- lines 72-126: the step body
\* The folder names a step's output may go to.
LevelFolders == {"level_2", "level_5", "level_unrecognized"}

\* Lines 61-71 without the deep copy of line 61: the folder is joined in front
\* of the out_filename of cf_level itself.
ClassifyGivenInPlace ==
    /\ pc = "classify"
    /\ LET step == cf_corr.Correction
       IN  IF step.long_name = Absent \/ step.standard_name = Absent
           THEN Raise("KeyError", "step") /\ UNCHANGED <<level_folder, cf_corr, cf_level>>
           ELSE \E folder \in LevelFolders :
                   /\ level_folder' = folder
                   /\ cf_corr' = [cf_corr EXCEPT !.Files.out_filename =
                                                     PathJoin(<<folder>>, @)]
                   /\ cf_level' = [cf_level EXCEPT !.Files.out_filename =
                                                       PathJoin(<<folder>>, @)]
                   /\ pc' = "validate"
                   /\ UNCHANGED exc
    /\ UNCHANGED <<stop_flag, dirs, ds, i, func, dataframe, dataframe2, j,
                   log, writes, ds0, started, merged, cancelled, stop_set_in, gate, kern>>

\* Lines 65-71 with the level folder given: the state do_corrections is in at
\* line 72 once line 68 has yielded the folder `folder`.
ClassifyGiven ==
    /\ pc = "classify"
    /\ LET step == cf_corr.Correction
       IN  IF step.long_name = Absent \/ step.standard_name = Absent
           THEN Raise("KeyError", "step") /\ UNCHANGED <<level_folder, cf_corr>>
           ELSE \E folder \in LevelFolders :
                   /\ level_folder' = folder
                   /\ cf_corr' = [cf_corr EXCEPT !.Files.out_filename =
                                                     PathJoin(<<folder>>, @)]
                   /\ pc' = "validate"
                   /\ UNCHANGED exc
    /\ UNCHANGED <<cf_level, stop_flag, dirs, ds, i, func, dataframe, dataframe2, j,
                   log, writes, ds0, started, merged, cancelled, stop_set_in, gate, kern>>

\* return 0
Return0 == pc' = "returned0"

\* Lines 72-80 with a gate that blocks: a step whose validation fails is left.
ValidateBlocking ==
    /\ pc = "validate"
    /\ LET checked == check_px_controlfile(cf_corr, dirs)
       IN  /\ dirs' = checked.dirs
           /\ log' = IF checked.ok
                     THEN log
                     ELSE Logged("ERROR", "Error occurred checking compliance of PP controlfile")
           /\ pc' = IF checked.ok THEN "extract" ELSE "returned0"
    /\ UNCHANGED <<cf_level, stop_flag, ds, i, cf_corr, level_folder, func, dataframe,
                   dataframe2, j, writes, exc, ds0, started, merged, cancelled,
                   stop_set_in, gate, kern>>

\* Lines 72-80: the gate's verdict is logged and nothing else.
Validate ==
    /\ pc = "validate"
    /\ LET checked == check_px_controlfile(cf_corr, dirs)
       IN  /\ dirs' = checked.dirs
           /\ log' = IF checked.ok
                     THEN log
                     ELSE Logged("ERROR", "Error occurred checking compliance of PP controlfile")
    /\ pc' = "extract"
    /\ UNCHANGED <<cf_level, stop_flag, ds, i, cf_corr, level_folder, func, dataframe,
                   dataframe2, j, writes, exc, ds0, started, merged, cancelled,
                   stop_set_in, gate, kern>>

\* Lines 82-87: for an empty table the message of line 85 formats func, which
\* is bound only once an earlier step has resolved its function; otherwise the
\* UnboundLocalError goes to the except clause of line 117.  Both return 0.
Extract ==
    /\ pc = "extract"
    /\ LET variables_requested == cf_corr.Correction.Variables
           table == convert_ds_to_dataframe(ds, variables_requested)
       IN  /\ dataframe' = table
           /\ IF IsEmpty(table)
              THEN /\ log' = IF func = Unbound
                             THEN Logged("ERROR", "Error occurred during pre processing")
                             ELSE Logged("ERROR", "Empty data for correction")
                   /\ Return0
              ELSE /\ pc' = "resolve"
                   /\ UNCHANGED log
    /\ UNCHANGED <<cf_level, stop_flag, dirs, ds, i, cf_corr, level_folder, func,
                   dataframe2, j, writes, exc, ds0, started, merged, cancelled,
                   stop_set_in, gate, kern>>

\* Lines 89-90: getattr raises AttributeError for a name the module lacks, and
\* the except clause of line 117 logs it and returns 0.
Resolve ==
    /\ pc = "resolve"
    /\ LET function_name == cf_corr.Correction.func_name
       IN  IF function_name \in ModuleAttrs
           THEN /\ func' = function_name
                /\ pc' = "apply"
                /\ UNCHANGED log
           ELSE /\ log' = Logged("ERROR", "Error occurred during pre processing")
                /\ Return0
                /\ UNCHANGED func
    /\ UNCHANGED <<cf_level, stop_flag, dirs, ds, i, cf_corr, level_folder, dataframe,
                   dataframe2, j, writes, exc, ds0, started, merged, cancelled,
                   stop_set_in, gate, kern>>

\* Lines 91-100: the call; an exception of the call is logged and returns 0.
Apply ==
    /\ pc = "apply"
    /\ \E fails \in BOOLEAN :
          LET called == CallAttr(func, dataframe, fails)
          IN  IF called.exc # "none"
              THEN /\ log' = Logged("ERROR", "Error while running")
                   /\ Return0
                   /\ UNCHANGED dataframe2
              ELSE /\ dataframe2' = called.table
                   /\ pc' = "shape"
                   /\ UNCHANGED log
    /\ UNCHANGED <<cf_level, stop_flag, dirs, ds, i, cf_corr, level_folder, func,
                   dataframe, j, writes, exc, ds0, started, merged, cancelled,
                   stop_set_in, gate, kern>>

\* Lines 101-103: a dict has no .shape (AttributeError, to line 117); a
\* DataFrame of another shape is warned about and merged all the same.
ShapeCheck ==
    /\ pc = "shape"
    /\ IF dataframe2.kind # "DataFrame"
       THEN /\ log' = Logged("ERROR", "Error occurred during pre processing")
            /\ Return0
            /\ UNCHANGED j
       ELSE /\ log' = IF Shape(dataframe2) # Shape(dataframe)
                      THEN Logged("WARNING", "Correction changed data dimensions")
                      ELSE log
            /\ pc' = "merge"
            /\ j' = 1
    /\ UNCHANGED <<cf_level, stop_flag, dirs, ds, i, cf_corr, level_folder, func,
                   dataframe, dataframe2, writes, exc, ds0, started, merged, cancelled,
                   stop_set_in, gate, kern>>

\* pfp_utils.GetVariable(ds, label): the variable of that label; none for a
\* label the dataset lacks, which ends the step in the except clause.
HasVariable(d, label) == label \in DOMAIN d

\* Lines 106-110: the copy of the variable before correction, stored under
\* Label + "b4" + level_folder.
Archived(d, var_req, folder) ==
    CreateVariable(d, [d[var_req] EXCEPT !.Label = @ \o <<"b4", folder>>])

\* Lines 111-116: the variable with the corrected column as its data and the
\* note  description_<standard_name>: <long_name> applied  added to its Attr.
Corrected(d, var_req, column, step) ==
    CreateVariable(d, [d[var_req] EXCEPT
                          !.Data = column,
                          !.Attr = append_to_attribute(@, step.standard_name, step.long_name)])

\* Lines 105-116, one pass of the merge loop.
MergeVar ==
    /\ pc = "merge"
    /\ j <= Len(cf_corr.Correction.Variables)
    /\ LET var_req == cf_corr.Correction.Variables[j]
       IN  IF ~HasVariable(ds, var_req)
           THEN /\ log' = Logged("ERROR", "Error occurred during pre processing")
                /\ Return0
                /\ UNCHANGED <<ds, j>>
           ELSE IF var_req \notin Columns(dataframe2)
           THEN /\ ds' = Archived(ds, var_req, level_folder)
                /\ log' = Logged("ERROR", "Error occurred during pre processing")
                /\ Return0
                /\ UNCHANGED j
           ELSE /\ ds' = Corrected(Archived(ds, var_req, level_folder), var_req,
                                   dataframe2.data[var_req], cf_corr.Correction)
                /\ j' = j + 1
                /\ UNCHANGED <<pc, log>>
    /\ UNCHANGED <<cf_level, stop_flag, dirs, i, cf_corr, level_folder, func, dataframe,
                   dataframe2, writes, exc, ds0, started, merged, cancelled,
                   stop_set_in, gate, kern>>

\* Line 105: the merge loop is through.
MergeDone ==
    /\ pc = "merge"
    /\ j > Len(cf_corr.Correction.Variables)
    /\ pc' = "save"
    /\ merged' = merged \cup {i}
    /\ UNCHANGED <<cf_level, stop_flag, dirs, ds, i, cf_corr, level_folder, func,
                   dataframe, dataframe2, j, log, writes, exc, ds0, started, cancelled,
                   stop_set_in, gate, kern>>

\* Lines 124-126: the step's own write, when Attr has a true "Saving".
StepSave ==
    /\ pc = "save"
    /\ writes' = IF Truthy(cf_corr.Correction.Saving)
                 THEN Append(writes, [kind |-> "step",
                                      path |-> get_outfilenamefromcf(cf_corr)])
                 ELSE writes
    /\ i' = i + 1
    /\ pc' = "loop"
    /\ UNCHANGED <<cf_level, stop_flag, dirs, ds, cf_corr, level_folder, func, dataframe,
                   dataframe2, j, log, exc, ds0, started, merged, cancelled,
                   stop_set_in, gate, kern>>

\* The loop of do_corrections from line 72 on, for any folder line 68 may be
\* taken to yield.
NextBody ==
    \/ StepStart
    \/ StopObserved
    \/ LoopExhausted
    \/ ClassifyGiven
    \/ Validate
    \/ Extract
    \/ Resolve
    \/ Apply
    \/ ShapeCheck
    \/ MergeVar
    \/ MergeDone
    \/ StepSave
    \/ FinalSave
    \/ SetStop

SpecBody == Init /\ [][NextBody]_vars

\* ================================================= claims on do_corrections
\* An ERROR was logged while step k was in progress.
ErrorLogged(k) == \E n \in 1..Len(log) : log[n].step = k /\ log[n].level = "ERROR"

\* Every step after step k was started.
LaterStepsStarted(k) == \A m \in (k + 1)..Len(Steps) : m \in started

\* The run is over and was not cancelled.
RunOverUncancelled == pc \in Terminal /\ ~cancelled

\* C1: a step whose func_name names no attribute of opf_func_corrections is
\* skipped with an error logged, leaves the dataset as it was, and every later
\* step is still started: stated of the finished, uncancelled run.
C1_UnknownFunctionSkipped ==
    RunOverUncancelled =>
        \A k \in started :
            Steps[k].func_name \notin ModuleAttrs =>
                /\ ErrorLogged(k)
                /\ (k = Max(started) => ds = ds0)
                /\ LaterStepsStarted(k)

FinalWrites == {n \in 1..Len(writes) : writes[n].kind = "final"}

\* C3: every run ends with exactly one final write, the last write of the run,
\* to the output path of the last step started.
C3_OneFinalWrite ==
    pc \in Terminal =>
        /\ Cardinality(FinalWrites) = 1
        /\ writes[Len(writes)].kind = "final"
        /\ started # {} =>
               writes[Len(writes)].path = get_outfilenamefromcf(cf_corr)

\* C4: no exception raised while a step is processed leaves do_corrections.
C4_NoStepExceptionEscapes == ~(pc = "raised" /\ exc.at = "step")

\* The step that was in progress when the run ended in a failure.
StepFailed == pc = "returned0" \/ (pc = "raised" /\ exc.at = "step")

EmptySelection(k) ==
    /\ Steps[k].Variables # <<>>
    /\ \A n \in 1..Len(Steps[k].Variables) : Steps[k].Variables[n] \notin DOMAIN ds

\* C6: a step whose extraction is empty is aborted alone, with an error logged:
\* the run goes on to start every remaining step and ends only by cancellation
\* or when the list is exhausted.
C6_EmptyStepAbortedAlone ==
    /\ RunOverUncancelled =>
           \A k \in started :
               EmptySelection(k) => ErrorLogged(k) /\ LaterStepsStarted(k)
    /\ pc \in Terminal => cancelled \/ started = 1..Len(Steps)

\* C8: once the flag was seen set at a step boundary only the final write is
\* left to do, and a step in progress when the flag was set runs through to the
\* end of its merge.
C8_StopOnlyAtBoundary ==
    /\ cancelled => pc \in {"final"} \cup Terminal
    /\ (pc \in Terminal /\ stop_set_in # 0) => stop_set_in \in merged

\* ======================================== an adapter applied to a table
\* A column the adapters do not name.
T == <<"T">>

\* The tables an adapter is applied to: at least one of the columns u, v, w, T
\* and at least one row, every column raw.
AdapterTables ==
    { [kind |-> "DataFrame", rows |-> r, data |-> [c \in cols |-> <<>>]] :
          r \in 1..NRows, cols \in (SUBSET {U, V, W, T}) \ {{}} }

\* The pipeline at rest, for the specifications of a gate or of a kernel alone.
IdlePipeline ==
    /\ cf_level = [sections |-> {"Files", "Global", "Variables", "Corrections"},
                   Files |-> NoFiles, Corrections |-> <<>>]
    /\ stop_flag = FALSE
    /\ dirs = {}
    /\ ds = <<>>
    /\ pc = "idle"
    /\ i = 1
    /\ cf_corr = NoCfCorr
    /\ level_folder = Unbound
    /\ func = Unbound
    /\ dataframe = NoTable
    /\ dataframe2 = NoTable
    /\ j = 0
    /\ log = <<>>
    /\ writes = <<>>
    /\ exc = NoException
    /\ ds0 = <<>>
    /\ started = {}
    /\ merged = {}
    /\ cancelled = FALSE
    /\ stop_set_in = 0

InitAdapter ==
    /\ IdlePipeline
    /\ gate = IdleGate
    /\ kern \in [pc : {"call"}, name : RegisteredAdapters, table : AdapterTables,
                 exc : {"none"}, result : {NoTable}]

\* getattr(opf_func_corrections, name)(table)
ApplyAdapter ==
    /\ kern.pc = "call"
    /\ \E fails \in BOOLEAN :
          LET called == CallAttr(kern.name, kern.table, fails)
          IN  kern' = [kern EXCEPT !.pc = IF called.exc = "none" THEN "returned" ELSE "raised",
                                   !.exc = called.exc,
                                   !.result = called.table]
    /\ UNCHANGED <<pvars, gate>>

NextAdapter == ApplyAdapter

SpecAdapter == InitAdapter /\ [][NextAdapter]_vars

\* C7: what a registered adapter returns has the row count and the column set
\* of the table it was given; and in do_corrections a table of another shape
\* than the input's never reaches the merge loop.
C7_AdapterKeepsShape ==
    /\ kern.pc = "returned" =>
           /\ kern.result.rows = kern.table.rows
           /\ Columns(kern.result) = Columns(kern.table)
    /\ pc = "merge" => Shape(dataframe2) = Shape(dataframe)

\* ====================================================== the gate of a file
\* The values the configurations give to numeric keys, as the text ConfigObj
\* read: int() parses the first set only, float() both.
IntLiterals == {"0", "1", "10", "20", "30", "45", "95", "100", "200", "-200"}

FloatLiterals == IntLiterals \cup {"0.05", "0.1"}

\* The number a literal stands for, times 100.
Times100(text) ==
    CASE text = "0" -> 0 [] text = "1" -> 100 [] text = "10" -> 1000
      [] text = "20" -> 2000 [] text = "30" -> 3000 [] text = "45" -> 4500
      [] text = "95" -> 9500 [] text = "100" -> 10000 [] text = "200" -> 20000
      [] text = "-200" -> -20000 [] text = "0.05" -> 5 [] text = "0.1" -> 10

\* os.path.splitext(name)[-1].lower()
Ext(name) ==
    CASE name = "a.csv" -> ".csv" [] name = "c.xls" -> ".xls"
      [] name = "b.txt" -> ".txt" [] name = "f.txt" -> ".txt"
      [] name = "f.nc" -> ".nc" [] OTHER -> ""

\* The reference schema std (controlfiles/standard/check_pp_controlfile.txt):
\* the labels of its Variables section, sorted, and Global.Required.
LblT == <<"T">>
LblTa == <<"T", "a">>
LblTa2 == <<"T", "a", "2">>
LblX == <<"X">>

std_labels == <<LblT, LblTa>>

StdRequired == <<"latitude", "longitude", "time_step">>

\* sorted(list(cfg["Variables"].keys())): the labels in use, in sorted order
AllLabelsSorted == <<LblT, LblTa, LblTa2, LblX>>

SortedLabels(labels) == SelectSeq(AllLabelsSorted, LAMBDA l : l \in labels)

\* l[:min([len(l), lsl])] == std_label
StartsWith(l, std_label) ==
    Len(std_label) <= Len(l) /\ SubSeq(l, 1, Len(std_label)) = std_label

\* A statement that runs only if no exception is under way.
Then(g, after) == IF g.exc # "none" THEN g ELSE after

Raised(g, type) == [g EXCEPT !.exc = type]

\* Lines 140-143 of px_check_global_required
RECURSIVE CheckRequired(_, _, _)
CheckRequired(items, cfg, g) ==
    IF items = <<>> THEN g
    ELSE CheckRequired(Tail(items), cfg,
                       IF Head(items) \in cfg.Global.keys THEN g
                       ELSE AddMessage(g, "ERROR", <<"Global: not in section (required)", Head(items)>>))

\* Lines 145-153: after the ValueError of int() is answered with a message,
\* line 151 reads ts, which was never assigned.
CheckTimeStep(cfg, g) ==
    IF "time_step" \notin cfg.Global.keys THEN g
    ELSE IF cfg.Global.time_step \notin IntLiterals
         THEN Raised(AddMessage(g, "ERROR", <<"Global: 'time_step' is not a number">>),
                     "UnboundLocalError")
         ELSE IF Times100(cfg.Global.time_step) \notin {2000, 1000, 5, 10}
              THEN AddMessage(g, "ERROR", <<"Global : 'time_step' must be 20, 10, 0.05 or 0.1">>)
              ELSE g

\* Lines 155-163
CheckLatitude(cfg, g) ==
    IF "latitude" \notin cfg.Global.keys THEN g
    ELSE IF cfg.Global.latitude \notin FloatLiterals
         THEN AddMessage(g, "ERROR", <<"Global: 'latitude' is not a number">>)
         ELSE IF Times100(cfg.Global.latitude) < -9000 \/ Times100(cfg.Global.latitude) > 9000
              THEN AddMessage(g, "ERROR", <<"Global: 'latitude' must be between -90 and 90">>)
              ELSE g

\* Lines 165-173: the upper bound is tested on lat, which is bound only if
\* latitude was there and parsed; the NameError is no ValueError.
CheckLongitude(cfg, g) ==
    LET lat_bound == "latitude" \in cfg.Global.keys /\ cfg.Global.latitude \in FloatLiterals
    IN  IF "longitude" \notin cfg.Global.keys THEN g
        ELSE IF cfg.Global.longitude \notin FloatLiterals
             THEN AddMessage(g, "ERROR", <<"Global: 'longitude' is not a number">>)
             ELSE IF Times100(cfg.Global.longitude) < -18000
                  THEN AddMessage(g, "ERROR", <<"Global: 'longitude' must be between -180 and 180">>)
                  ELSE IF ~lat_bound THEN Raised(g, "UnboundLocalError")
                  ELSE IF Times100(cfg.Global.latitude) > 18000
                       THEN AddMessage(g, "ERROR", <<"Global: 'longitude' must be between -180 and 180">>)
                       ELSE g

\* px_check_global_required(cfg, std, messages)
px_check_global_required(cfg, g) ==
    LET g1 == CheckRequired(StdRequired, cfg, g)
        g2 == CheckTimeStep(cfg, g1)
        g3 == Then(g2, CheckLatitude(cfg, g2))
    IN  Then(g3, CheckLongitude(cfg, g3))

\* pfp_compliance's checks (l1_check_global_forced, l1_check_global_recommended,
\* l1_check_variables_sections, l1_check_nc_labels, l1_check_input_labels,
\* l1_check_irga_sonic_type): the check `name` finds nothing, adds an error, or
\* raises.
ExternalOutcomes == {"clean", "errors", "raises"}

ExternalCheck(g, name, outcome) ==
    IF outcome = "errors" THEN AddMessage(g, "ERROR", <<name>>)
    ELSE IF outcome = "raises" THEN Raised(g, "Exception")
    ELSE g

\* px_check_global_attributes(cfg, std, messages)
px_check_global_attributes(cfg, g, outcome) ==
    IF "Global" \in cfg.sections
    THEN LET g1 == px_check_global_required(cfg, g)
         IN  Then(g1, ExternalCheck(g1, "l1_check_global", outcome))
    ELSE g

\* Lines 213-225 of pp_check_files: file_path is a local that is bound only
\* when the key was there.
RECURSIVE CheckInFiles(_, _, _, _)
CheckInFiles(names, cfg, files, g) ==
    IF names = <<>> \/ g.exc # "none" THEN g
    ELSE LET file_name == Head(names)
             g1 == IF Ext(file_name) \in {".xls", ".xlsx", ".csv"}
                   THEN IF "file_path" \notin cfg.Files.keys
                        THEN Raised(g, "UnboundLocalError")
                        ELSE IF PathJoin(cfg.Files.file_path, <<file_name>>) \in files
                             THEN g
                             ELSE AddMessage(g, "ERROR", <<"Files: not found", file_name>>)
                   ELSE AddMessage(g, "ERROR", <<"Files: doesn't end with .xls, .xlsx or .csv", file_name>>)
         IN  CheckInFiles(Tail(names), cfg, files, g1)

\* Lines 231-237 and 240-246: one message for every item int() rejects.
RECURSIVE CheckRows(_, _, _)
CheckRows(items, key, g) ==
    IF items = <<>> THEN g
    ELSE CheckRows(Tail(items), key,
                   IF Head(items) \in IntLiterals THEN g
                   ELSE AddMessage(g, "ERROR", <<"Files: is not an integer", key>>))

\* pp_check_files(cfg, std, messages): the state of the checks and the
\* configuration, whose out_filepath the check may set.
pp_check_files(cfg, files, g) ==
    IF "Files" \notin cfg.sections
    THEN [st |-> AddMessage(g, "ERROR", <<"'Files' section not in control file">>), cfg |-> cfg]
    ELSE
    LET F == cfg.Files
        ga == IF "file_path" \in F.keys
              THEN IF IsDir(g.dirs, F.file_path) THEN g
                   ELSE AddMessage(g, "ERROR", <<"Files: file_path is not a directory">>)
              ELSE AddMessage(g, "ERROR", <<"Files: 'file_path' not in section">>)
        gb == IF "in_filename" \in F.keys
              THEN CheckInFiles(F.in_filename, cfg, files, ga)
              ELSE AddMessage(ga, "ERROR", <<"Files: 'in_filename' not in section">>)
        gc == IF "in_firstdatarow" \in F.keys
              THEN Then(gb, CheckRows(F.in_firstdatarow, "in_firstdatarow", gb)) ELSE gb
        gd == IF "in_headerrow" \in F.keys
              THEN Then(gc, CheckRows(F.in_headerrow, "in_headerrow", gc)) ELSE gc
        made == Mkdir(gd.dirs, F.out_filepath)
        ge == IF "out_filepath" \in F.keys
              THEN IF IsDir(gd.dirs, F.out_filepath) THEN gd
                   ELSE [AddMessage(gd, "INFO", <<"Files: out_filepath doesn't exist, creating ...">>)
                            EXCEPT !.exc = made.exc, !.dirs = made.dirs]
              ELSE IF "file_path" \notin F.keys THEN Raised(gd, "KeyError")
                   ELSE AddMessage(gd, "ERROR", <<"Files: 'out_filepath' not in section, using file_path as output folder">>)
        cfg_e == IF gd.exc = "none" /\ "out_filepath" \notin F.keys /\ "file_path" \in F.keys
                 THEN [cfg EXCEPT !.Files.keys = @ \cup {"out_filepath"},
                                  !.Files.out_filepath = F.file_path]
                 ELSE cfg
        gf == IF "out_filename" \in F.keys
              THEN IF F.out_filename # <<>> /\ Ext(F.out_filename[Len(F.out_filename)]) = ".nc"
                   THEN ge
                   ELSE AddMessage(ge, "ERROR", <<"Files: out_filename doesn't end with .nc">>)
              ELSE AddMessage(ge, "ERROR", <<"Files: 'out_filename' not in section">>)
    IN  [st |-> Then(gd, Then(ge, gf)), cfg |-> cfg_e]

\* ------------------------------------------------------- gate configurations
AllFilesKeys ==
    {"file_path", "in_filename", "in_firstdatarow", "in_headerrow",
     "out_filepath", "out_filename"}

GateFiles(keys, in_filename, in_firstdatarow, out_filename) ==
    [keys |-> keys, file_path |-> <<"in">>, in_filename |-> in_filename,
     in_firstdatarow |-> in_firstdatarow, in_headerrow |-> <<"0">>,
     out_filepath |-> <<"out">>, out_filename |-> out_filename]

\* Files sections: every key there with good and bad values, and one or two
\* keys (or all) missing.
GateFilesMenu ==
    { GateFiles(AllFilesKeys, names, rows, out) :
          names \in {<<"a.csv">>, <<"a.csv", "b.txt">>},
          rows \in {<<"1">>, <<"1", "x">>},
          out \in {<<"f.nc">>, <<"f.txt">>} }
    \cup
    { GateFiles(AllFilesKeys \ missing, <<"a.csv">>, <<"1">>, <<"f.nc">>) :
          missing \in {{"file_path"}, {"out_filepath"}, {"file_path", "out_filepath"},
                       {"in_filename"}, {"out_filename"}, AllFilesKeys} }

GateGlobal(keys, time_step, latitude, longitude) ==
    [keys |-> keys, time_step |-> time_step, latitude |-> latitude, longitude |-> longitude]

AllGlobalKeys == {"time_step", "latitude", "longitude"}

\* Global sections: good values, each value bad in turn, and keys missing.
GateGlobalMenu ==
    { GateGlobal(AllGlobalKeys, ts, "45", "100") : ts \in {"20", "10", "0.05", "30", "abc"} }
    \cup { GateGlobal(AllGlobalKeys, "20", lat, "100") : lat \in {"95", "abc"} }
    \cup { GateGlobal(AllGlobalKeys, "20", "45", lon) : lon \in {"200", "-200", "abc"} }
    \cup { GateGlobal(AllGlobalKeys \ missing, "20", "45", "100") :
               missing \in {{"latitude"}, {"time_step"}, AllGlobalKeys} }

NoGlobal == GateGlobal({}, "", "", "")

GateVariablesMenu == {{}, {LblTa}, {LblTa2}, {LblT, LblTa, LblTa2, LblX}}

\* A configuration is its sections; a section that is missing has no content.
GateConfigurations ==
    { [sections |-> secs,
       Files |-> IF "Files" \in secs THEN F ELSE GateFiles({}, <<>>, <<>>, <<>>),
       Global |-> IF "Global" \in secs THEN G ELSE NoGlobal,
       Variables |-> IF "Variables" \in secs THEN vs ELSE {}] :
          secs \in SUBSET {"Files", "Global", "Variables"},
          F \in GateFilesMenu, G \in GateGlobalMenu, vs \in GateVariablesMenu }

\* The directories and files that exist when the gate runs.
GateDirs == {{}, {<<"in">>, <<"out">>}}

GateFilesOnDisk == {{}, {<<"in", "a.csv">>}}

InitGate ==
    /\ IdlePipeline
    /\ kern = IdleKern
    /\ gate \in [pc : {"start"}, which : {"pp", "px"}, cfg : GateConfigurations,
                 st : {GateState(d) : d \in GateDirs}, files : GateFilesOnDisk,
                 ran : {<<>>}, done : {<<>>}, checked : {<<>>},
                 ok : {TRUE}, propagated : {"none"}]

\* Where the try block goes on after a check.
After(st, next) == IF st.exc # "none" THEN "except" ELSE next

\* check_px_controlfile, lines 105-115: ok = True, the labels, and the files check.
PXChecks ==
    /\ gate.pc = "start"
    /\ gate.which = "px"
    /\ LET st == px_checks(gate.cfg, gate.st.dirs)
       IN  gate' = [gate EXCEPT !.st = st, !.pc = After(st, "verdict"),
                                !.ran = IF "Variables" \in gate.cfg.sections
                                        THEN Append(@, "px_check_files") ELSE @]
    /\ UNCHANGED <<pvars, kern>>

\* check_pp_controlfile, lines 47-55: cfg["Variables"] raises KeyError when
\* the section is missing.
PPStart ==
    /\ gate.pc = "start"
    /\ gate.which = "pp"
    /\ LET st == IF "Variables" \in gate.cfg.sections THEN gate.st
                 ELSE Raised(gate.st, "KeyError")
       IN  gate' = [gate EXCEPT !.st = st, !.pc = After(st, "files")]
    /\ UNCHANGED <<pvars, kern>>

\* Line 57
PPFiles ==
    /\ gate.pc = "files"
    /\ LET r == pp_check_files(gate.cfg, gate.files, gate.st)
       IN  gate' = [gate EXCEPT !.st = r.st, !.cfg = r.cfg, !.pc = After(r.st, "global"),
                                !.ran = Append(@, "pp_check_files")]
    /\ UNCHANGED <<pvars, kern>>

\* Line 59
PPGlobal ==
    /\ gate.pc = "global"
    /\ \E outcome \in ExternalOutcomes :
          LET st == px_check_global_attributes(gate.cfg, gate.st, outcome)
          IN  gate' = [gate EXCEPT !.st = st, !.pc = After(st, "exact"),
                                   !.ran = Append(@, "px_check_global_attributes")]
    /\ UNCHANGED <<pvars, kern>>

\* Lines 61-68: the labels that are schema labels are checked against
\* themselves and put on the done list.
PPVariablesExact ==
    /\ gate.pc = "exact"
    /\ \E outcome \in ExternalOutcomes :
          LET cfg_labels == SortedLabels(gate.cfg.Variables)
              label_matches == SelectSeq(cfg_labels, LAMBDA l : l \in Range(std_labels))
              st == IF label_matches # <<>>
                    THEN ExternalCheck(gate.st, "l1_check_variables_sections", outcome)
                    ELSE gate.st
          IN  gate' = [gate EXCEPT
                           !.st = st,
                           !.done = IF st.exc = "none" THEN label_matches ELSE @,
                           !.checked = IF st.exc = "none"
                                       THEN [n \in 1..Len(label_matches) |->
                                                <<label_matches[n], label_matches[n]>>]
                                       ELSE @,
                           !.pc = After(st, "prefix"),
                           !.ran = Append(@, "exact matches")]
    /\ UNCHANGED <<pvars, kern>>

\* The prefix loop without the done list: every label that starts with the
\* schema label is checked against it.
RECURSIVE PrefixMatchesIgnoringDone(_, _, _, _)
PrefixMatchesIgnoringDone(stds, cfg_labels, done, checked) ==
    IF stds = <<>> THEN [done |-> done, checked |-> checked]
    ELSE LET std_label == Head(stds)
             label_matches == SelectSeq(cfg_labels, LAMBDA l : StartsWith(l, std_label))
         IN  PrefixMatchesIgnoringDone(Tail(stds), cfg_labels, done \o label_matches,
                                       checked \o [n \in 1..Len(label_matches) |->
                                                      <<label_matches[n], std_label>>])

\* Lines 71-78: for the schema labels in order, the labels that start with
\* the schema label and are not on the done list.
RECURSIVE PrefixMatches(_, _, _, _)
PrefixMatches(stds, cfg_labels, done, checked) ==
    IF stds = <<>> THEN [done |-> done, checked |-> checked]
    ELSE LET std_label == Head(stds)
             label_matches == SelectSeq(cfg_labels,
                                  LAMBDA l : StartsWith(l, std_label) /\ l \notin Range(done))
         IN  PrefixMatches(Tail(stds), cfg_labels, done \o label_matches,
                           checked \o [n \in 1..Len(label_matches) |->
                                          <<label_matches[n], std_label>>])

PPVariablesPrefix ==
    /\ gate.pc = "prefix"
    /\ \E outcome \in ExternalOutcomes :
          LET r == PrefixMatches(std_labels, SortedLabels(gate.cfg.Variables),
                                 gate.done, gate.checked)
              st == IF r.done # gate.done
                    THEN ExternalCheck(gate.st, "l1_check_variables_sections", outcome)
                    ELSE gate.st
          IN  gate' = [gate EXCEPT
                           !.st = st,
                           !.done = IF st.exc = "none" THEN r.done ELSE @,
                           !.checked = IF st.exc = "none" THEN r.checked ELSE @,
                           !.pc = After(st, "labels"),
                           !.ran = Append(@, "prefix matches")]
    /\ UNCHANGED <<pvars, kern>>

\* Lines 80-84
PPLabels ==
    /\ gate.pc = "labels"
    /\ \E outcome \in ExternalOutcomes :
          LET st == ExternalCheck(gate.st, "l1_check_labels", outcome)
          IN  gate' = [gate EXCEPT !.st = st,
                                   !.pc = After(st, "verdict"),
                                   !.ran = Append(@, "l1_check_labels")]
    /\ UNCHANGED <<pvars, kern>>

\* Lines 85-86 and 93 (116-117 and 124): the verdict after the checks.
GateVerdict ==
    /\ gate.pc = "verdict"
    /\ gate' = [gate EXCEPT !.ok = GateResult(gate.st).ok, !.pc = "returned"]
    /\ UNCHANGED <<pvars, kern>>

\* Lines 87-93 (118-124): the except clause.
GateExcept ==
    /\ gate.pc = "except"
    /\ gate' = [gate EXCEPT !.ok = GateResult(gate.st).ok,
                            !.propagated = GateResult(gate.st).propagated,
                            !.pc = "returned"]
    /\ UNCHANGED <<pvars, kern>>

NextGate ==
    \/ PXChecks
    \/ PPStart
    \/ PPFiles
    \/ PPGlobal
    \/ PPVariablesExact
    \/ PPVariablesPrefix
    \/ PPLabels
    \/ GateVerdict
    \/ GateExcept

SpecGate == InitGate /\ [][NextGate]_vars

\* The checks a gate makes, in order.
ChecksOf(which) ==
    IF which = "px" THEN <<"px_check_files">>
    ELSE <<"pp_check_files", "px_check_global_attributes", "exact matches",
           "prefix matches", "l1_check_labels">>

\* C9: when no exception was raised, a gate returns after all its checks have
\* run, with ok = True exactly when the ERROR list is empty; an exception
\* raised inside the validation ends in ok = False and does not leave the gate.
C9_GateVerdict ==
    gate.pc = "returned" =>
        /\ gate.st.exc = "none" =>
               /\ gate.ran = ChecksOf(gate.which)
               /\ gate.ok <=> (Len(gate.st.messages.ERROR) = 0)
        /\ gate.st.exc # "none" => ~gate.ok
        /\ gate.propagated = "none"

\* An exception was caught with no error recorded, and the gate returned False.
C9_Witness ==
    /\ gate.pc = "returned"
    /\ gate.st.exc # "none"
    /\ Len(gate.st.messages.ERROR) = 0
    /\ ~gate.ok

\* ======================================================= the despike kernel
\* opf_func_corrections.__Despike__ and __mauder2013__ on numbers.  A sample
\* is missing (NaN) or a number num/den; the input samples are integers.  The
\* quantiles are kept times 100 and the medians times 2 and 4, so that every
\* comparison of the code is an exact comparison of integers.
MaxLen == 4

Samples == {-1, 0, 1, 100}

\* q, the default of __mauder2013__
DefaultQ == 7

NaN == [nan |-> TRUE, num |-> 0, den |-> 1]

Num(v) == [nan |-> FALSE, num |-> v, den |-> 1]

SampleValues == {NaN} \cup {Num(v) : v \in Samples}

\* numpy.isnan
isnan(x) == [k \in 1..Len(x) |-> x[k].nan]

\* The numbers of a column that are not missing, in increasing order.
SortedValid(x) ==
    LET valid == SelectSeq(x, LAMBDA e : ~e.nan)
    IN  SortSeq([k \in 1..Len(valid) |-> valid[k].num], LAMBDA a, b : a < b)

\* numpy.nanquantile(x, q100 / 100), times 100: linear interpolation between
\* the two order statistics around position (n - 1) * q; NaN when no sample
\* is valid.
nanquantile(x, q100) ==
    LET s == SortedValid(x)
        n == Len(s)
        h100 == (n - 1) * q100
        lo == (h100 \div 100) + 1
        hi == IF lo < n THEN lo + 1 ELSE lo
    IN  IF n = 0 THEN [nan |-> TRUE, x100 |-> 0]
        ELSE [nan |-> FALSE, x100 |-> 100 * s[lo] + (h100 % 100) * (s[hi] - s[lo])]

\* x < absurdity_bounds_min, line 45: 10**(-3 if p1 > 0 else 3) * p1
BelowAbsurdMin(e, p1) ==
    /\ ~e.nan
    /\ ~p1.nan
    /\ IF p1.x100 > 0 THEN 100000 * e.num < p1.x100
       ELSE 100 * e.num < 1000 * p1.x100

\* x > absurdity_bounds_max, line 46: 10**(3 if p99 > 0 else -3) * p99
AboveAbsurdMax(e, p99) ==
    /\ ~e.nan
    /\ ~p99.nan
    /\ IF p99.x100 > 0 THEN 100 * e.num > 1000 * p99.x100
       ELSE 100000 * e.num > p99.x100

\* Line 48: the samples both below the minimum and above the maximum.
absurd_cases(x, p1, p99) ==
    Cardinality({k \in 1..Len(x) : BelowAbsurdMin(x[k], p1) /\ AboveAbsurdMax(x[k], p99)})

\* Lines 43-56
FilterAbsurd(x) ==
    LET p1 == nanquantile(x, 1)
        p99 == nanquantile(x, 99)
    IN  IF absurd_cases(x, p1, p99) # 0
        THEN [k \in 1..Len(x) |->
                 IF BelowAbsurdMin(x[k], p1) \/ AboveAbsurdMax(x[k], p99) THEN NaN ELSE x[k]]
        ELSE x

\* numpy.nanmedian of a sorted list, times 2
Median2(s) ==
    LET n == Len(s)
    IN  IF n % 2 = 1 THEN 2 * s[(n + 1) \div 2] ELSE s[n \div 2] + s[(n \div 2) + 1]

\* __mauder2013__(x, q): the samples outside x_med -+ q * mad / 0.6745 become
\* missing.  With x_med = med2 / 2 and mad = mad4 / 4,
\*   x < x_med - q * mad / 0.6745  iff  6745 * (4 x - 2 med2) < -10000 q mad4.
mauder2013(x, q) ==
    LET s == SortedValid(x)
        med2 == Median2(s)
        dev2 == SortSeq([k \in 1..Len(s) |-> IF 2 * s[k] >= med2 THEN 2 * s[k] - med2
                                             ELSE med2 - 2 * s[k]],
                        LAMBDA a, b : a < b)
        mad4 == Median2(dev2)
    IN  IF Len(s) = 0 THEN x
        ELSE [k \in 1..Len(x) |->
                 IF x[k].nan THEN x[k]
                 ELSE IF 6745 * (4 * x[k].num - 2 * med2) < -(10000 * q * mad4) THEN NaN
                 ELSE IF 6745 * (4 * x[k].num - 2 * med2) > 10000 * q * mad4 THEN NaN
                 ELSE x[k]]

\* numpy.interp at position k over the valid samples: the sample itself, the
\* line between the valid neighbours, or the first (last) valid sample before
\* (after) all of them.
InterpAt(x, k) ==
    LET valid == {m \in 1..Len(x) : ~x[m].nan}
        left == {m \in valid : m <= k}
        right == {m \in valid : m >= k}
    IN  IF left = {} THEN x[CHOOSE m \in right : \A o \in right : m <= o]
        ELSE IF right = {} THEN x[Max(left)]
        ELSE LET a == Max(left)
                 b == CHOOSE m \in right : \A o \in right : m <= o
             IN  IF a = b THEN x[k]
                 ELSE [nan |-> FALSE,
                       num |-> x[a].num * (b - a) + (k - a) * (x[b].num - x[a].num),
                       den |-> b - a]

\* Lines 60 to 65: ngap and the interpolation; numpy.interp raises ValueError
\* when there is no valid sample.
Interpolate(x) ==
    IF \A m \in 1..Len(x) : x[m].nan
    THEN [exc |-> "ValueError", out |-> <<>>]
    ELSE [exc |-> "none", out |-> [k \in 1..Len(x) |-> InterpAt(x, k)]]

\* Line 66 with the gaps dropped: the interpolated column as it is.
KeepInterpolated(ogap, x) == x

\* Line 66: numpy.where(ogap, numpy.nan, var_out)
RestoreGaps(ogap, x) == [k \in 1..Len(x) |-> IF ogap[k] THEN NaN ELSE x[k]]

\* The loop body of __Despike__ for one column.
DespikeColumn(x) ==
    LET ogap == isnan(x)
        filtered == FilterAbsurd(x)
        var_out == mauder2013(filtered, DefaultQ)
        ngap == isnan(var_out)
        filled == Interpolate(var_out)
    IN  [exc |-> filled.exc, ogap |-> ogap, ngap |-> ngap,
         reported |-> absurd_cases(x, nanquantile(x, 1), nanquantile(x, 99)),
         filtered |-> filtered,
         out |-> IF filled.exc = "none" THEN RestoreGaps(ogap, filled.out) ELSE <<>>]

\* __Despike__(dataframe): every column in turn; the first exception ends the call.
DespikeFrame(frame) ==
    LET cols == [c \in DOMAIN frame |-> DespikeColumn(frame[c])]
    IN  IF \E c \in DOMAIN frame : cols[c].exc # "none"
        THEN [exc |-> "ValueError", cols |-> cols, out |-> <<>>]
        ELSE [exc |-> "none", cols |-> cols, out |-> [c \in DOMAIN frame |-> cols[c].out]]

\* The dataframes: one column of samples, alone or beside a second column of
\* the same length that is constant or all missing.
DespikeFrames ==
    LET columns == UNION {[1..n -> SampleValues] : n \in 0..MaxLen}
    IN  { (U :> x) : x \in columns }
        \cup { (U :> x) @@ (V :> [k \in 1..Len(x) |-> e]) :
                   x \in columns, e \in {NaN, Num(0)} }

InitDespike ==
    /\ IdlePipeline
    /\ gate = IdleGate
    /\ kern \in [pc : {"call"}, dataframe : DespikeFrames,
                 result : {[exc |-> "none", cols |-> <<>>, out |-> <<>>]}]

\* Despike_Mauder_2013(dataframe): the call and its return or exception.
ApplyDespike ==
    /\ kern.pc = "call"
    /\ LET r == DespikeFrame(kern.dataframe)
       IN  kern' = [kern EXCEPT !.result = r,
                                !.pc = IF r.exc = "none" THEN "returned" ELSE "raised"]
    /\ UNCHANGED <<pvars, gate>>

NextDespike == ApplyDespike

SpecDespike == InitDespike /\ [][NextDespike]_vars

RegistryFolder(standard_name) ==
    LET short_name == EntryGet(get_corrections_from_key_value("short_name", standard_name),
                               "short_name", "")
    IN  IF short_name = "" THEN "level_unrecognized" ELSE short_name

\* C11: once a step that has a long_name and a standard_name is classified,
\* level_folder is the folder the registry gives its standard_name, or the
\* unrecognized bucket, and it heads the step's out_filename: the lookup
\* yields a folder for every standard_name.
C11_LevelFolderForEveryName ==
    (/\ cf_corr.bound
     /\ pc # "classify"
     /\ cf_corr.Correction.long_name # Absent
     /\ cf_corr.Correction.standard_name # Absent)
        => /\ level_folder = RegistryFolder(cf_corr.Correction.standard_name)
           /\ cf_corr.Files.out_filename =
                  PathJoin(<<level_folder>>, cf_level.Files.out_filename)

\* C12: check_pp_controlfile on a configuration with a Variables section runs
\* every one of its checks to the end, whatever the earlier checks recorded:
\* none of the gate's own checks ends the validation early (the checks of
\* pfp_compliance raising is left aside).
C12_ChecksAccumulate ==
    (/\ gate.pc = "returned"
     /\ gate.which = "pp"
     /\ "Variables" \in gate.cfg.sections
     /\ gate.st.exc # "Exception")
        => /\ gate.ran = ChecksOf("pp")
           /\ gate.st.exc = "none"

\* ------------------------------------- px_check_global_required on its own
\* The Global sections the check is applied to: each of the three keys
\* missing or there with a good, an out-of-range or an unparsable value.
GlobalSections ==
    { GateGlobal({k \in AllGlobalKeys :
                     \/ k = "time_step" /\ ts # Absent
                     \/ k = "latitude" /\ lat # Absent
                     \/ k = "longitude" /\ lon # Absent},
                 IF ts = Absent THEN "" ELSE ts,
                 IF lat = Absent THEN "" ELSE lat,
                 IF lon = Absent THEN "" ELSE lon) :
          ts \in {"20", "10", "0.05", "0.1", "30", "abc", Absent},
          lat \in {"45", "95", "-200", "abc", Absent},
          lon \in {"100", "200", "-200", "abc", Absent} }

InitGlobal ==
    /\ IdlePipeline
    /\ kern = IdleKern
    /\ gate \in [pc : {"call"}, which : {"global"},
                 cfg : {[sections |-> {"Global"}, Global |-> G] : G \in GlobalSections},
                 st : {GateState({})}]

\* px_check_global_required(cfg, std, messages): the call and its return or
\* exception.
ApplyGlobalRequired ==
    /\ gate.pc = "call"
    /\ LET st == px_check_global_required(gate.cfg, gate.st)
       IN  gate' = [gate EXCEPT !.st = st,
                                !.pc = IF st.exc = "none" THEN "returned" ELSE "raised"]
    /\ UNCHANGED <<pvars, kern>>

NextGlobal == ApplyGlobalRequired

SpecGlobal == InitGlobal /\ [][NextGlobal]_vars

\* The errors the check records on the value of a field.
ValueErrors(field) ==
    CASE field = "time_step" ->
             {<<"Global: 'time_step' is not a number">>,
              <<"Global : 'time_step' must be 20, 10, 0.05 or 0.1">>}
      [] field = "latitude" ->
             {<<"Global: 'latitude' is not a number">>,
              <<"Global: 'latitude' must be between -90 and 90">>}
      [] field = "longitude" ->
             {<<"Global: 'longitude' is not a number">>,
              <<"Global: 'longitude' must be between -180 and 180">>}

\* The value of a field is a number inside the field's domain.
ValidValue(field, text) ==
    /\ text \in FloatLiterals
    /\ CASE field = "time_step" -> Times100(text) \in {2000, 1000, 5, 10}
         [] field = "latitude" -> Times100(text) >= -9000 /\ Times100(text) <= 9000
         [] field = "longitude" -> Times100(text) >= -18000 /\ Times100(text) <= 18000

\* C13: px_check_global_required ends without an exception, and for every
\* field of Global that is there it has recorded an error on the field's value
\* exactly when the value is no number or lies outside the field's domain
\* (latitude in [-90, 90], longitude in [-180, 180], time_step one of 20, 10,
\* 0.05, 0.1).
C13_GlobalFieldsJudged ==
    (gate.pc \in {"returned", "raised"} /\ gate.which = "global") =>
        /\ gate.pc = "returned"
        /\ \A field \in gate.cfg.Global.keys :
              (Range(gate.st.messages.ERROR) \cap ValueErrors(field) # {})
                  <=> ~ValidValue(field, gate.cfg.Global[field])

\* The samples of a column outside the absurdity bounds of lines 45 and 46.
OutsideAbsurdityBounds(x) ==
    {k \in 1..Len(x) : \/ BelowAbsurdMin(x[k], nanquantile(x, 1))
                       \/ AboveAbsurdMax(x[k], nanquantile(x, 99))}

\* C14: in every column, each sample below the minimum or above the maximum
\* bound is missing in the column the spike detection is given, and the number
\* reported is the number of those samples.
C14_AbsurdValuesDiscarded ==
    kern.pc \in {"returned", "raised"} =>
        \A c \in DOMAIN kern.dataframe :
            LET outside == OutsideAbsurdityBounds(kern.dataframe[c])
            IN  /\ \A k \in outside : kern.result.cols[c].filtered[k].nan
                /\ kern.result.cols[c].reported = Cardinality(outside)

\* The kernel of the mode an adapter is named after.
OwnKernel(name) ==
    CASE name = "Tilt_2_rotation" -> "__wilczak2001_2r__"
      [] name = "Tilt_3_rotation" -> "__wilczak2001_3r__"
      [] name = "Tilt_planar_fit" -> "__planarfit__"

\* C15: a tilt adapter that returns on a table with u, v and w has applied the
\* kernel of its own mode to the three components, and the triple rotation
\* completes without error on the table's u, v, w.
C15_TiltAdapterOwnKernel ==
    (/\ kern.pc \in {"returned", "raised"}
     /\ kern.name \in RegisteredAdapters \ {"Despike_Mauder_2013"}
     /\ {U, V, W} \subseteq Columns(kern.table))
        => /\ kern.pc = "returned" =>
                  \A c \in {U, V, W} :
                      /\ c \in Columns(kern.result)
                      /\ kern.result.data[c] = Append(kern.table.data[c], OwnKernel(kern.name))
           /\ Tilt_correction(kern.table, "3r", FALSE).exc = "none"

\* C16: check_pp_controlfile checks no configured variable against the schema
\* twice, and a variable whose name is a schema label is checked against that
\* label.
C16_VariableCheckedOnce ==
    gate.which = "pp" =>
        /\ \A m, n \in 1..Len(gate.checked) :
              gate.checked[m][1] = gate.checked[n][1] => m = n
        /\ \A n \in 1..Len(gate.checked) :
              gate.checked[n][1] \in Range(std_labels) =>
                  gate.checked[n][2] = gate.checked[n][1]

\* The gate has returned after checking a variable named as a schema label
\* that also starts with another schema label, and a variable that starts
\* with two schema labels.
C16_Witness ==
    /\ gate.which = "pp"
    /\ gate.pc = "returned"
    /\ \E n \in 1..Len(gate.checked) : gate.checked[n] = <<LblTa, LblTa>>
    /\ \E n \in 1..Len(gate.checked) : gate.checked[n][1] = LblTa2
    /\ Cardinality({n \in 1..Len(std_labels) : StartsWith(LblTa2, std_labels[n])}) > 1

\* The output paths are the level folder joined once with the out_filename of
\* the configuration: that of the step in progress, and those written to.
OutputPathsJoinedOnce ==
    /\ (cf_corr.bound /\ pc \in InStep \ {"classify"}) =>
           /\ cf_corr.Correction = Steps[i]
           /\ cf_corr.Files.out_filename =
                  PathJoin(<<level_folder>>, cf_level.Files.out_filename)
    /\ \A n \in 1..Len(writes) :
           \E folder \in LevelFolders :
               writes[n].path = PathJoin(cf_level.Files.out_filepath,
                                         PathJoin(<<folder>>, cf_level.Files.out_filename))

GateFailed(k) ==
    \E n \in 1..Len(log) :
        /\ log[n].step = k
        /\ log[n].msg = "Error occurred checking compliance of PP controlfile"

====
